---- MODULE Spec2Model ----
(***************************************************************************)
(* A model of ChatBattery's formula extraction (LLM_agent.parse and        *)
(* _clean_formula_candidate), of its generation loop                       *)
(* (LLM_Agent.optimize_batteries_chatgpt) and of its decision engine       *)
(* (Decision_Agent.decide_one_pair / decide_pairs).                        *)
(*                                                                         *)
(* A text is a sequence of characters and a character is a string atom.    *)
(* Python's None is NoneValue, which is no text: its one element is no     *)
(* character.                                                              *)
(***************************************************************************)
EXTENDS Integers, Sequences, FiniteSets, TLC

----------------------------------------------------------------------------
(* Characters *)

\* The two characters that a TLA+ string literal cannot hold are named.
Backtick == "backtick"
MidDot == "middot"
Backslash == "\\"
NoneValue == << "None" >>

UpperSeq ==
  << "A", "B", "C", "D", "E", "F", "G", "H", "I", "J", "K", "L", "M",
     "N", "O", "P", "Q", "R", "S", "T", "U", "V", "W", "X", "Y", "Z" >>
LowerSeq ==
  << "a", "b", "c", "d", "e", "f", "g", "h", "i", "j", "k", "l", "m",
     "n", "o", "p", "q", "r", "s", "t", "u", "v", "w", "x", "y", "z" >>

Range(s) == { s[i] : i \in 1..Len(s) }

Upper == Range(UpperSeq)
Lower == Range(LowerSeq)
Letter == Upper \cup Lower
Digit == { "0", "1", "2", "3", "4", "5", "6", "7", "8", "9" }
\* str.strip() with no argument and the regex class \s
Whitespace == { " ", "\t", "\n", "\r", "\f" }
\* the regex class \w, which decides where \b holds
WordChar == Letter \cup Digit \cup { "_" }
\* the characters the class [A-Za-z0-9\.\(\)\[\]/·] keeps
FormulaChar == Letter \cup Digit \cup { ".", "(", ")", "[", "]", "/", MidDot }

\* re.IGNORECASE on one character
ToLower(c) ==
  IF c \in Upper
    THEN LowerSeq[CHOOSE i \in 1..26 : UpperSeq[i] = c]
    ELSE c

----------------------------------------------------------------------------
(* str methods *)

RECURSIVE LStrip(_, _)
LStrip(s, cs) ==
  IF s # <<>> /\ Head(s) \in cs THEN LStrip(Tail(s), cs) ELSE s

RECURSIVE RStrip(_, _)
RStrip(s, cs) ==
  IF s # <<>> /\ s[Len(s)] \in cs
    THEN RStrip(SubSeq(s, 1, Len(s) - 1), cs)
    ELSE s

Strip(s, cs) == RStrip(LStrip(s, cs), cs)

StartsWith(s, p) ==
  /\ Len(p) <= Len(s)
  /\ \A k \in 1..Len(p) : s[k] = p[k]

\* p in s
Contains(s, p) ==
  \E i \in 0..(Len(s) - Len(p)) : \A k \in 1..Len(p) : s[i + k] = p[k]

\* the first index of character c in s, 0 when there is none
IndexOf(s, c) ==
  IF c \in Range(s)
    THEN CHOOSE i \in 1..Len(s) : s[i] = c /\ \A j \in 1..(i - 1) : s[j] # c
    ELSE 0

\* s.replace(old, new): every non-overlapping occurrence, left to right
RECURSIVE Replace(_, _, _)
Replace(s, old, new) ==
  IF s = <<>> THEN <<>>
  ELSE IF StartsWith(s, old)
    THEN new \o Replace(SubSeq(s, Len(old) + 1, Len(s)), old, new)
    ELSE <<Head(s)>> \o Replace(Tail(s), old, new)

\* s.replace(old, new, 1)
RECURSIVE ReplaceFirst(_, _, _)
ReplaceFirst(s, old, new) ==
  IF s = <<>> THEN <<>>
  ELSE IF StartsWith(s, old)
    THEN new \o SubSeq(s, Len(old) + 1, Len(s))
    ELSE <<Head(s)>> \o ReplaceFirst(Tail(s), old, new)

\* s.split(c)
RECURSIVE Split(_, _)
Split(s, c) ==
  LET i == IndexOf(s, c)
  IN  IF i = 0 THEN <<s>>
      ELSE <<SubSeq(s, 1, i - 1)>> \o Split(SubSeq(s, i + 1, Len(s)), c)

\* the characters of s that are not in cs
RECURSIVE Remove(_, _)
Remove(s, cs) ==
  IF s = <<>> THEN <<>>
  ELSE IF Head(s) \in cs THEN Remove(Tail(s), cs)
  ELSE <<Head(s)>> \o Remove(Tail(s), cs)

----------------------------------------------------------------------------
(* Regular expressions of LLM_agent.py *)

\* re.findall(r"\$([^$]+)\$", s)
RECURSIVE FindMath(_)
FindMath(s) ==
  IF s = <<>> THEN <<>>
  ELSE IF Head(s) = "$"
    THEN LET rest == Tail(s)
             j == IndexOf(rest, "$")
         IN  IF j >= 2
               THEN <<SubSeq(rest, 1, j - 1)>>
                      \o FindMath(SubSeq(rest, j + 1, Len(rest)))
               ELSE FindMath(rest)
    ELSE FindMath(Tail(s))

\* max(chunks, key=len): the first of the longest
Longest(chunks) ==
  LET m == CHOOSE n \in { Len(chunks[i]) : i \in 1..Len(chunks) } :
             \A i \in 1..Len(chunks) : Len(chunks[i]) <= n
      k == CHOOSE i \in 1..Len(chunks) :
             Len(chunks[i]) = m /\ \A j \in 1..(i - 1) : Len(chunks[j]) # m
  IN  chunks[k]

\* re.sub(r"\\[a-zA-Z]+", "", s)
RECURSIVE RemoveCommands(_)
RemoveCommands(s) ==
  IF s = <<>> THEN <<>>
  ELSE IF Head(s) = Backslash /\ Len(s) >= 2 /\ s[2] \in Letter
    THEN RemoveCommands(LStrip(Tail(s), Letter))
    ELSE <<Head(s)>> \o RemoveCommands(Tail(s))

\* re.sub(r"_\{([^}]+)\}", r"\1", s)
RECURSIVE BracedSubscripts(_)
BracedSubscripts(s) ==
  IF s = <<>> THEN <<>>
  ELSE IF StartsWith(s, << "_", "{" >>)
    THEN LET rest == SubSeq(s, 3, Len(s))
             j == IndexOf(rest, "}")
         IN  IF j >= 2
               THEN SubSeq(rest, 1, j - 1)
                      \o BracedSubscripts(SubSeq(rest, j + 1, Len(rest)))
               ELSE <<Head(s)>> \o BracedSubscripts(Tail(s))
    ELSE <<Head(s)>> \o BracedSubscripts(Tail(s))

\* the length of the longest prefix of s in [0-9]*
RECURSIVE DigitRun(_)
DigitRun(s) ==
  IF s # <<>> /\ Head(s) \in Digit THEN 1 + DigitRun(Tail(s)) ELSE 0

\* re.sub(r"_([0-9]+(?:\.[0-9]+)?)", r"\1", s)
RECURSIVE NumericSubscripts(_)
NumericSubscripts(s) ==
  IF s = <<>> THEN <<>>
  ELSE IF Head(s) = "_" /\ Len(s) >= 2 /\ s[2] \in Digit
    THEN LET rest == Tail(s)
             n == DigitRun(rest)
             frac == SubSeq(rest, n + 1, Len(rest))
             m == IF Len(frac) >= 2 /\ frac[1] = "." /\ frac[2] \in Digit
                    THEN 1 + DigitRun(Tail(frac))
                    ELSE 0
         IN  SubSeq(rest, 1, n + m)
               \o NumericSubscripts(SubSeq(rest, n + m + 1, Len(rest)))
    ELSE <<Head(s)>> \o NumericSubscripts(Tail(s))

\* a plausible slip in the class of line 98: \w in place of A-Za-z0-9
KeepFormulaChars_WordClass(s) == Remove(s, Range(s) \ (FormulaChar \cup { "_" }))

\* re.sub(r"[^A-Za-z0-9\.\(\)\[\]/·]", "", s)
KeepFormulaChars(s) == Remove(s, Range(s) \ FormulaChar)

\* re.findall(r"[A-Z][a-z]?", s)
RECURSIVE ElementTokens(_)
ElementTokens(s) ==
  IF s = <<>> THEN <<>>
  ELSE IF Head(s) \in Upper
    THEN IF Len(s) >= 2 /\ s[2] \in Lower
           THEN << <<s[1], s[2]>> >> \o ElementTokens(SubSeq(s, 3, Len(s)))
           ELSE << <<s[1]>> >> \o ElementTokens(Tail(s))
    ELSE ElementTokens(Tail(s))

\* re.search(r"\breasoning\b", line, flags=re.IGNORECASE)
ReasoningWord == << "r", "e", "a", "s", "o", "n", "i", "n", "g" >>

SearchReasoning(line) ==
  \E i \in 0..(Len(line) - 9) :
    /\ \A k \in 1..9 : ToLower(line[i + k]) = ReasoningWord[k]
    /\ i = 0 \/ line[i] \notin WordChar
    /\ i + 9 = Len(line) \/ line[i + 10] \notin WordChar

----------------------------------------------------------------------------
(* _clean_formula_candidate *)

_clean_formula_candidate(text) ==
  LET t0 == Strip(text, Whitespace)
      t1 == Strip(Strip(Replace(Replace(t0, << "*", "*" >>, <<>>),
                                << "_", "_" >>, <<>>),
                        { Backtick }),
                  Whitespace)
      t2 == IF "$" \in Range(t1)
              THEN LET chunks == FindMath(t1)
                   IN  IF chunks # <<>> THEN Longest(chunks)
                       ELSE Remove(t1, { "$" })
              ELSE t1
      t3 == Replace(t2, << Backslash, "c", "d", "o", "t" >>, << MidDot >>)
      t4 == RemoveCommands(t3)
      t5 == NumericSubscripts(BracedSubscripts(t4))
      t6 == Remove(t5, { "{", "}" })
      t7 == Remove(t6, Whitespace)
  IN  IF t0 = <<>> THEN <<>> ELSE KeepFormulaChars(t7)

----------------------------------------------------------------------------
(* parse *)

AssistantMarker == << "A", "s", "s", "i", "s", "t", "a", "n", "t", ":" >>

\* a plausible slip in line 126: the flag re.IGNORECASE left out
SearchReasoning_CaseSensitive(line) ==
  \E i \in 0..(Len(line) - 9) :
    /\ \A k \in 1..9 : line[i + k] = ReasoningWord[k]
    /\ i = 0 \/ line[i] \notin WordChar
    /\ i + 9 = Len(line) \/ line[i + 10] \notin WordChar

\* line 126: whether the bullet line is a reasoning bullet
IsReasoningBullet(line) == SearchReasoning(line)

\* lines 114-119: the line as the bullet tests see it
NormalizeLine(rawline) ==
  LET l0 == Strip(rawline, Whitespace)
  IN  IF StartsWith(l0, AssistantMarker)
        THEN Strip(ReplaceFirst(l0, AssistantMarker, <<>>), Whitespace)
        ELSE l0

\* lines 114-136: the segments one line of the response contributes
LineSegments(rawline) ==
  LET line == NormalizeLine(rawline)
      body == Strip(LStrip(line, { "*" }), Whitespace)
      segments == FindMath(body)
  IN  IF Strip(rawline, Whitespace) = <<>> THEN <<>>
      ELSE IF ~StartsWith(line, << "*" >>) THEN <<>>
      ELSE IF IsReasoningBullet(line) THEN <<>>
      ELSE IF body = <<>> THEN <<>>
      ELSE IF segments = <<>> THEN << body >>
      ELSE segments

\* line 144
HasAlkali(candidate) ==
  Contains(candidate, << "L", "i" >>) \/ Contains(candidate, << "N", "a" >>)

\* a plausible slip in line 149: the bound off by one
HasTwoElements_OffByOne(candidate) == Len(ElementTokens(candidate)) >= 1

\* lines 148-150
HasTwoElements(candidate) == Len(ElementTokens(candidate)) >= 2

\* a plausible slip in lines 152-156: the test against the record left out
Record_NoDedup(record, candidate, history_battery_list) ==
  IF candidate \in Range(history_battery_list)
    THEN record
    ELSE Append(record, candidate)

\* lines 152-156
Record(record, candidate, history_battery_list) ==
  IF candidate \in Range(history_battery_list) THEN record
  ELSE IF candidate \notin Range(record) THEN Append(record, candidate)
  ELSE record

\* lines 139-156: one segment
ParseSegment(seg, record, history_battery_list) ==
  LET candidate == _clean_formula_candidate(seg)
  IN  IF candidate = <<>> THEN record
      ELSE IF ~HasAlkali(candidate) THEN record
      ELSE IF ~HasTwoElements(candidate) THEN record
      ELSE Record(record, candidate, history_battery_list)

\* lines 138-156: the segments of one line, in order
RECURSIVE ParseSegments(_, _, _)
ParseSegments(segs, record, history_battery_list) ==
  IF segs = <<>> THEN record
  ELSE ParseSegments(Tail(segs),
                     ParseSegment(Head(segs), record, history_battery_list),
                     history_battery_list)

\* lines 113-156: the lines, in order
RECURSIVE ParseLines(_, _, _)
ParseLines(lines, record, history_battery_list) ==
  IF lines = <<>> THEN record
  ELSE ParseLines(Tail(lines),
                  ParseSegments(LineSegments(Head(lines)), record,
                                history_battery_list),
                  history_battery_list)

\* (raw_text or "")
OrEmpty(raw_text) == IF raw_text = NoneValue THEN <<>> ELSE raw_text

parse(raw_text, history_battery_list) ==
  ParseLines(Split(Strip(OrEmpty(raw_text), Whitespace), "\n"), <<>>,
             history_battery_list)

----------------------------------------------------------------------------
(* State *)

VARIABLES
  pc,                      \* the position of the operation in progress
  messages,                \* optimize_batteries_chatgpt: the conversation
  raw_generated_text,      \* optimize_batteries_chatgpt: the last response
  generated_battery_list,  \* optimize_batteries_chatgpt: its candidates
  history_battery_list,    \* optimize_batteries_chatgpt: line 196
  received,                \* optimize_batteries_chatgpt: line 194
  calls,                   \* the model calls issued so far
  fault,                   \* the exception the handler of line 232 caught last
  result,                  \* what the operation returned to its caller
  text,                    \* _clean_formula_candidate: its argument
  raw_text,                \* parse: its first argument
  history,                 \* parse: its second argument
  input_formula,           \* Decision_Agent: the baseline
  output_formula_list,     \* Decision_Agent: the candidates
  task_id,                 \* Decision_Agent: the task selector
  capacity,                \* the oracle: formula -> capacity, or OracleFault
  answer_list,             \* decide_pairs: line 23
  oracle_calls             \* the oracle calls issued so far

loopVars ==
  << messages, raw_generated_text, generated_battery_list,
     history_battery_list, received, calls, fault >>
textVars == << text, raw_text, history >>
decideVars ==
  << input_formula, output_formula_list, task_id, capacity, answer_list,
     oracle_calls >>
vars == << pc, result, loopVars, textVars, decideVars >>

\* a local variable not assigned yet, and a function that has not returned
Unbound == << "unbound" >>
UnboundList == << Unbound >>

LoopIdle ==
  /\ messages = <<>>
  /\ raw_generated_text = Unbound
  /\ generated_battery_list = UnboundList
  /\ history_battery_list = <<>>
  /\ received = FALSE
  /\ calls = 0
  /\ fault = "none"

TextIdle == text = <<>> /\ raw_text = <<>> /\ history = <<>>

DecideIdle ==
  /\ input_formula = ""
  /\ output_formula_list = <<>>
  /\ task_id = 0
  /\ capacity = <<>>
  /\ answer_list = <<>>
  /\ oracle_calls = 0

\* every concatenation of at most n of the tokens
RECURSIVE TextsOf(_, _)
TextsOf(tokens, n) ==
  IF n = 0 THEN { <<>> }
  ELSE LET shorter == TextsOf(tokens, n - 1)
       IN  shorter \cup { t \o tok : t \in shorter, tok \in tokens }

----------------------------------------------------------------------------
(* LLM_Agent.optimize_batteries_chatgpt *)

MaxCalls == 3

\* what the mocked model may answer: a formula, a LaTeX formula, an anion
\* fragment, a reasoning bullet, prose, and a null content
Responses ==
  { << "*", " ", "L", "i", "F", "e", "P", "O", "_", "4" >>,
    << "*", " ", "$", "N", "a", "_", "{", "2", "}", "O", "$" >>,
    << "*", " ", "P", "O", "4" >>,
    << "*", " ", "R", "e", "a", "s", "o", "n", "i", "n", "g", ":", " ",
       "L", "i", "H" >>,
    << "S", "u", "r", "e", "." >>,
    NoneValue }

Conversations ==
  { <<>>,
    << [role |-> "user", content |-> << "Q" >>] >>,
    << [role |-> "system", content |-> << "S" >>],
       [role |-> "user", content |-> << "Q" >>] >> }

\* ", ".join(repr(c) for c in candidates)
RECURSIVE ReprItems(_)
ReprItems(candidates) ==
  IF candidates = <<>> THEN <<>>
  ELSE << "'" >> \o Head(candidates) \o << "'" >>
         \o (IF Len(candidates) > 1 THEN << ",", " " >> ELSE <<>>)
         \o ReprItems(Tail(candidates))

\* line 226: "Please do not generate batteries in this list {}.".format(l)
ExclusionText(candidates) ==
  << "P", "l", "e", "a", "s", "e", " ", "d", "o", " ", "n", "o", "t", " ",
     "g", "e", "n", "e", "r", "a", "t", "e", " ", "b", "a", "t", "t", "e",
     "r", "i", "e", "s", " ", "i", "n", " ", "t", "h", "i", "s", " ", "l",
     "i", "s", "t", " " >>
    \o << "[" >> \o ReprItems(candidates) \o << "]", "." >>

\* a plausible slip in line 228: >= in place of >
AssertNonEmpty_Weak(battery_list) == Len(battery_list) >= 0

\* line 228: the assertion that ends the retries
AssertNonEmpty(battery_list) == Len(battery_list) > 0

LoopInit ==
  /\ pc = "call"
  /\ messages \in Conversations
  /\ raw_generated_text = Unbound
  /\ generated_battery_list = UnboundList
  /\ history_battery_list = <<>>
  /\ received = FALSE
  /\ calls = 0
  /\ fault = "none"
  /\ result = << Unbound, UnboundList >>
  /\ TextIdle
  /\ DecideIdle

\* lines 198-213: the call returns a response
ModelCallReturns ==
  /\ pc = "call"
  /\ ~received
  /\ calls < MaxCalls
  /\ \E response \in Responses : raw_generated_text' = response
  /\ calls' = calls + 1
  /\ fault' = "none"
  /\ pc' = "parse"
  /\ UNCHANGED << messages, generated_battery_list, history_battery_list,
                  received, result, textVars, decideVars >>

\* lines 198-213, 232-233: the call raises
ModelCallFaults ==
  /\ pc = "call"
  /\ ~received
  /\ calls < MaxCalls
  /\ calls' = calls + 1
  /\ fault' = "ProviderError"
  /\ pc' = "backoff"
  /\ UNCHANGED << messages, raw_generated_text, generated_battery_list,
                  history_battery_list, received, result, textVars,
                  decideVars >>

\* a plausible change of lines 216-230: the candidates found are added to the
\* history
ParseResponse_Accumulate ==
  /\ pc = "parse"
  /\ LET generated == parse(raw_generated_text, history_battery_list)
         raw_generated == parse(raw_generated_text, <<>>)
         last == Len(messages)
     IN  /\ generated_battery_list' = generated
         /\ history_battery_list' = history_battery_list \o generated
         /\ IF raw_generated_text = NoneValue
              THEN \* line 219: None has no replace
                   /\ fault' = "AttributeError"
                   /\ pc' = "backoff"
                   /\ UNCHANGED << messages, received >>
            ELSE IF Len(generated) = 0 /\ messages = <<>>
              THEN \* line 226: messages[-1] of an empty list
                   /\ fault' = "IndexError"
                   /\ pc' = "backoff"
                   /\ UNCHANGED << messages, received >>
            ELSE /\ messages' =
                      IF Len(generated) = 0
                        THEN [messages EXCEPT ![last].content =
                                @ \o ExclusionText(raw_generated)]
                        ELSE messages
                 /\ IF AssertNonEmpty(generated)
                      THEN /\ received' = TRUE
                           /\ fault' = "none"
                           /\ pc' = "return"
                      ELSE /\ received' = FALSE
                           /\ fault' = "AssertionError"
                           /\ pc' = "backoff"
  /\ UNCHANGED << raw_generated_text, calls, result, textVars, decideVars >>

\* lines 216-233: extraction, the exclusion clause, the assertion
ParseResponse ==
  /\ pc = "parse"
  /\ LET generated == parse(raw_generated_text, history_battery_list)
         raw_generated == parse(raw_generated_text, <<>>)
         last == Len(messages)
     IN  /\ generated_battery_list' = generated
         /\ IF raw_generated_text = NoneValue
              THEN \* line 219: None has no replace
                   /\ fault' = "AttributeError"
                   /\ pc' = "backoff"
                   /\ UNCHANGED << messages, received >>
            ELSE IF Len(generated) = 0 /\ messages = <<>>
              THEN \* line 226: messages[-1] of an empty list
                   /\ fault' = "IndexError"
                   /\ pc' = "backoff"
                   /\ UNCHANGED << messages, received >>
            ELSE /\ messages' =
                      IF Len(generated) = 0
                        THEN [messages EXCEPT ![last].content =
                                @ \o ExclusionText(raw_generated)]
                        ELSE messages
                 /\ IF AssertNonEmpty(generated)
                      THEN /\ received' = TRUE
                           /\ fault' = "none"
                           /\ pc' = "return"
                      ELSE /\ received' = FALSE
                           /\ fault' = "AssertionError"
                           /\ pc' = "backoff"
  /\ UNCHANGED << raw_generated_text, history_battery_list, calls, result,
                  textVars, decideVars >>

\* a plausible slip in lines 232-234: the handler gives up
Backoff_GiveUp ==
  /\ pc = "backoff"
  /\ pc' = "done"
  /\ result' = << raw_generated_text, generated_battery_list >>
  /\ UNCHANGED << loopVars, textVars, decideVars >>

\* lines 232-234, 198: print, sleep, and the loop goes round
Backoff ==
  /\ pc = "backoff"
  /\ ~received
  /\ pc' = "call"
  /\ UNCHANGED << result, loopVars, textVars, decideVars >>

\* lines 198, 235
Return ==
  /\ pc = "return"
  /\ received
  /\ pc' = "done"
  /\ result' = << raw_generated_text, generated_battery_list >>
  /\ UNCHANGED << loopVars, textVars, decideVars >>

Init == LoopInit

Next ==
  \/ ModelCallReturns
  \/ ModelCallFaults
  \/ ParseResponse
  \/ Backoff
  \/ Return

Spec == Init /\ [][Next]_vars

----------------------------------------------------------------------------
(* _clean_formula_candidate and parse as operations on bounded inputs *)

MaxCleanTokens == 4
MaxParseTokens == 3

\* the pieces of markdown and LaTeX the arguments of the normalization are
\* built from
CleanTokens ==
  { << "L", "i" >>, << "4" >>, << "." >>, << "_" >>, << "{" >>, << "}" >>,
    << "$" >>, << "*" >>, << " " >>, << Backtick >>,
    << Backslash, "c", "d", "o", "t" >> }

\* the pieces the responses given to the extractor are built from
ParseTokens ==
  { << "*", " ", "L", "i", "O" >>,
    << "*", " ", "$", "N", "a", "_", "{", "2", "}", "O", "$", " ",
       "$", "L", "i", "O", "$", " ", "$", "L", "i", "H", "$" >>,
    << "*", " ", "R", "e", "a", "s", "o", "n", "i", "n", "g", ":", " ",
       "L", "i", "H" >>,
    << "*", " ", "L", "i" >>,
    << "L", "i" >>,
    << " ", "r", "e", "a", "s", "o", "n", "i", "n", "g" >>,
    << "A", "s", "s", "i", "s", "t", "a", "n", "t", ":", " " >>,
    << "*", " ", "_", "R", "e", "a", "s", "o", "n", "i", "n", "g", "_", ":",
       " ", "L", "i", "H" >>,
    << "\n" >> }

Histories ==
  { <<>>,
    << << "L", "i", "H" >> >>,
    << << "N", "a", "2", "O" >>, << "L", "i", "O" >> >> }

CleanInit ==
  /\ pc = "clean"
  /\ text \in TextsOf(CleanTokens, MaxCleanTokens)
  /\ raw_text = <<>>
  /\ history = <<>>
  /\ result = <<>>
  /\ LoopIdle
  /\ DecideIdle

\* a caller normalizes its text
Clean ==
  /\ pc = "clean"
  /\ result' = << _clean_formula_candidate(text) >>
  /\ pc' = "cleaned"
  /\ UNCHANGED << loopVars, textVars, decideVars >>

\* the caller normalizes what the normalization returned
CleanAgain ==
  /\ pc = "cleaned"
  /\ result' = Append(result, _clean_formula_candidate(result[1]))
  /\ pc' = "recleaned"
  /\ UNCHANGED << loopVars, textVars, decideVars >>

CleanNext == Clean \/ CleanAgain

CleanSpec == CleanInit /\ [][CleanNext]_vars

ParseInit ==
  /\ pc = "extract"
  /\ raw_text \in TextsOf(ParseTokens, MaxParseTokens) \cup { NoneValue }
  /\ history \in Histories
  /\ text = <<>>
  /\ result = UnboundList
  /\ LoopIdle
  /\ DecideIdle

\* a caller extracts the candidates of a response
ParseCall ==
  /\ pc = "extract"
  /\ result' = parse(raw_text, history)
  /\ pc' = "extracted"
  /\ UNCHANGED << loopVars, textVars, decideVars >>

ParseNext == ParseCall

ParseSpec == ParseInit /\ [][ParseNext]_vars

----------------------------------------------------------------------------
(* Decision_Agent *)

MaxCandidates == 2
MaxCapacity == 2

\* the formulas handed to the decision engine; it passes them to the oracle
\* and never looks inside
Formulas == { "LiFePO4", "NaCl", "$PO_4" }

\* the task selectors a caller may pass: the two of line 7, some others
TaskIds == { 101, 102, 103, 0 }

\* calculate_theoretical_capacity raised: no capacity, which are positive
OracleFault == -1
\* float("nan"): no capacity either, and never compared
NaN == -2

Capacities == 1..MaxCapacity

\* the sequences over S of length at most n
RECURSIVE SeqsUpTo(_, _)
SeqsUpTo(S, n) ==
  IF n = 0 THEN { <<>> }
  ELSE LET shorter == SeqsUpTo(S, n - 1)
       IN  shorter \cup { Append(q, x) : q \in shorter, x \in S }

\* a plausible slip in line 19: >= in place of >
Improves_OrEqual(output_value, input_value) == output_value >= input_value * 1

\* line 19
Improves(output_value, input_value) == output_value > input_value * 1

\* a plausible slip in lines 11-17: the try block left out
decide_one_pair_NoTry(input, output, task) ==
  IF task \notin { 101, 102 }
    THEN [raised |-> "NotImplementedError", oracle |-> 0, value |-> <<>>]
  ELSE IF capacity[input] = OracleFault
    THEN [raised |-> "OracleFault", oracle |-> 1, value |-> <<>>]
  ELSE IF capacity[output] = OracleFault
    THEN [raised |-> "OracleFault", oracle |-> 2, value |-> <<>>]
  ELSE [raised |-> "none", oracle |-> 2,
        value |-> << capacity[input], capacity[output],
                     Improves(capacity[output], capacity[input]) >>]

\* decide_one_pair: what it raises, the oracle calls it issues, and what it
\* returns
decide_one_pair(input, output, task) ==
  IF task \notin { 101, 102 }
    THEN [raised |-> "NotImplementedError", oracle |-> 0, value |-> <<>>]
  ELSE IF capacity[input] = OracleFault
    THEN [raised |-> "OracleFault", oracle |-> 1, value |-> <<>>]
  ELSE IF capacity[output] = OracleFault
    THEN [raised |-> "none", oracle |-> 2,
          value |-> << capacity[input], NaN, FALSE >>]
  ELSE [raised |-> "none", oracle |-> 2,
        value |-> << capacity[input], capacity[output],
                     Improves(capacity[output], capacity[input]) >>]

DecideInit ==
  /\ pc = "idle"
  /\ input_formula \in Formulas
  /\ output_formula_list \in SeqsUpTo(Formulas, MaxCandidates)
  /\ task_id \in TaskIds
  /\ capacity \in [Formulas -> Capacities \cup { OracleFault }]
  /\ answer_list = <<>>
  /\ oracle_calls = 0
  /\ result = <<>>
  /\ LoopIdle
  /\ TextIdle

\* a caller calls decide_one_pair on the baseline and one formula
DecideOnePair ==
  /\ pc = "idle"
  /\ \E output_formula \in Formulas :
       LET r == decide_one_pair(input_formula, output_formula, task_id)
       IN  /\ oracle_calls' = oracle_calls + r.oracle
           /\ result' = << output_formula >> \o r.value
           /\ pc' = IF r.raised = "none" THEN "one_returned" ELSE r.raised
  /\ UNCHANGED << input_formula, output_formula_list, task_id, capacity,
                  answer_list, loopVars, textVars >>

\* line 23: a caller calls decide_pairs
DecidePairsBegin ==
  /\ pc = "idle"
  /\ answer_list' = <<>>
  /\ pc' = "pairs"
  /\ UNCHANGED << result, input_formula, output_formula_list, task_id,
                  capacity, oracle_calls, loopVars, textVars >>

\* lines 24-26: one round of the loop
DecidePairsStep ==
  /\ pc = "pairs"
  /\ Len(answer_list) < Len(output_formula_list)
  /\ LET output_formula == output_formula_list[Len(answer_list) + 1]
         r == decide_one_pair(input_formula, output_formula, task_id)
     IN  /\ oracle_calls' = oracle_calls + r.oracle
         /\ IF r.raised = "none"
              THEN /\ answer_list' =
                        Append(answer_list,
                               << output_formula, r.value[2], r.value[3] >>)
                   /\ pc' = "pairs"
              ELSE /\ answer_list' = answer_list
                   /\ pc' = r.raised
  /\ UNCHANGED << result, input_formula, output_formula_list, task_id,
                  capacity, loopVars, textVars >>

\* lines 24, 27: the loop is over
DecidePairsReturn ==
  /\ pc = "pairs"
  /\ Len(answer_list) = Len(output_formula_list)
  /\ result' = answer_list
  /\ pc' = "pairs_returned"
  /\ UNCHANGED << input_formula, output_formula_list, task_id, capacity,
                  answer_list, oracle_calls, loopVars, textVars >>

DecideNext ==
  \/ DecideOnePair
  \/ DecidePairsBegin
  \/ DecidePairsStep
  \/ DecidePairsReturn

DecideSpec == DecideInit /\ [][DecideNext]_vars

----------------------------------------------------------------------------
(* Claims about the generation loop, checked under Spec *)

TrailingContent == messages[Len(messages)].content

\* the loop has just rejected the response of its first call
FirstResponseRejected ==
  calls = 1 /\ pc = "backoff" /\ fault = "AssertionError"

\* C1: when the first response is rejected, it is rejected for holding a
\* formula that is not novel, and after that first call the trailing message
\* of the conversation holds the exclusion text that lists the formula of
\* the first response.
C1_FirstRejectionListsFormula ==
  FirstResponseRejected =>
    LET found == parse(raw_generated_text, <<>>)
    IN  /\ found # <<>>
        /\ \A k \in 1..Len(found) :
             Contains(TrailingContent, << "'" >> \o found[k] \o << "'" >>)

\* C2: whenever the loop returns (raw_text, candidates), it returns from the
\* accepted state, candidates is not empty, it is the extractor's output on
\* the returned raw_text, which is the last response, under the history of
\* the session, and none of its strings is in that history.
C2_ReturnsOnlyAccepted ==
  pc = "done" =>
    /\ received
    /\ fault = "none"
    /\ result[1] = raw_generated_text
    /\ result[2] # <<>>
    /\ result[2] = parse(result[1], history_battery_list)
    /\ \A k \in 1..Len(result[2]) :
         result[2][k] \notin Range(history_battery_list)

\* the loop returned candidates on its last call, after a rejected response
\* had extended the trailing message
C2_Witness ==
  /\ pc = "done"
  /\ calls = MaxCalls
  /\ Len(result[2]) = 1
  /\ messages # <<>>
  /\ Len(TrailingContent) > 1

\* C3: a fault of the model call leads to the backoff, the backoff leads to
\* another model call and never to a return, and the loop ends only by the
\* return of the accepted state.
C3_FaultsAreRetried ==
  [][ /\ (pc = "call" /\ pc' # "parse"
            => pc' = "backoff" /\ fault' = "ProviderError")
      /\ (pc = "backoff"
            => pc' = "call" /\ ~received' /\ result' = result)
      /\ (pc' = "done" => pc = "return" /\ received /\ fault = "none") ]_vars

\* two calls have faulted in a row, no call has returned yet, and the loop is
\* about to call the model again
C3_Witness ==
  /\ pc = "call"
  /\ calls = 2
  /\ fault = "ProviderError"
  /\ raw_generated_text = Unbound

----------------------------------------------------------------------------
(* Claims about the extractor, checked under ParseSpec *)

\* the lines of the response, as line 113 splits them
ResponseLines == Split(Strip(OrEmpty(raw_text), Whitespace), "\n")

\* the cleaned segments of the lines, in the order of the text
RECURSIVE CleanedSegments(_)
CleanedSegments(segs) ==
  IF segs = <<>> THEN <<>>
  ELSE << _clean_formula_candidate(Head(segs)) >> \o CleanedSegments(Tail(segs))

RECURSIVE CandidateStream(_)
CandidateStream(lines) ==
  IF lines = <<>> THEN <<>>
  ELSE CleanedSegments(LineSegments(Head(lines))) \o CandidateStream(Tail(lines))

\* the first position of x in the sequence s
FirstPosition(s, x) ==
  CHOOSE i \in 1..Len(s) : s[i] = x /\ \A j \in 1..(i - 1) : s[j] # x

\* C4: the list the extractor returns holds no string twice, holds no string
\* of the history it was given, and its elements stand in the order of their
\* first appearance in the text.
C4_NoDuplicatesNoHistoryInOrder ==
  pc = "extracted" =>
    LET stream == CandidateStream(ResponseLines)
    IN  /\ \A i, j \in 1..Len(result) : i # j => result[i] # result[j]
        /\ \A i \in 1..Len(result) : result[i] \notin Range(history)
        /\ \A i \in 1..Len(result) : result[i] \in Range(stream)
        /\ \A i, j \in 1..Len(result) :
             i < j => FirstPosition(stream, result[i])
                        < FirstPosition(stream, result[j])

\* the text proposed a returned formula twice and a formula of the history,
\* and two formulas were returned
C4_Witness ==
  /\ pc = "extracted"
  /\ Len(result) = 2
  /\ LET stream == CandidateStream(ResponseLines)
     IN  /\ \E i, j \in 1..Len(stream) :
               i # j /\ stream[i] = stream[j] /\ stream[i] \in Range(result)
         /\ \E i \in 1..Len(stream) : stream[i] \in Range(history)

\* the maximal runs of the characters cs in a line
RECURSIVE RunsOf(_, _)
RunsOf(line, cs) ==
  LET rest == LStrip(line, Range(line) \ cs)
      run == SubSeq(rest, 1, Len(rest) - Len(LStrip(rest, cs)))
  IN  IF rest = <<>> THEN {}
      ELSE { run } \cup RunsOf(LStrip(rest, cs), cs)

\* one of the runs is "reasoning", in any letter case
HoldsReasoning(line, cs) ==
  \E w \in RunsOf(line, cs) :
    /\ Len(w) = Len(ReasoningWord)
    /\ \A k \in 1..Len(w) : ToLower(w[k]) = ReasoningWord[k]

\* the lines without those that hold the word, where the characters cs make
\* up words, joined by newlines
RECURSIVE JoinWithoutReasoning(_, _)
JoinWithoutReasoning(lines, cs) ==
  IF lines = <<>> THEN <<>>
  ELSE IF HoldsReasoning(Head(lines), cs)
    THEN JoinWithoutReasoning(Tail(lines), cs)
    ELSE Head(lines) \o << "\n" >> \o JoinWithoutReasoning(Tail(lines), cs)

\* C5: a bullet line that holds the word "reasoning", in any letter case and
\* anywhere in the line, contributes no candidate whatever else it holds: the
\* extractor returns what it returns for the text without those lines. A
\* word is a maximal run of letters.
C5_ReasoningLinesContributeNothing ==
  pc = "extracted" =>
    result = parse(JoinWithoutReasoning(ResponseLines, Letter), history)

\* C5, narrowed to what line 126 tests: the same for the lines that hold
\* "reasoning" with no letter, digit or underscore next to it.
C5_IsolatedReasoningLinesContributeNothing ==
  pc = "extracted" =>
    result = parse(JoinWithoutReasoning(ResponseLines, WordChar), history)

\* C10 as stated: every candidate the extractor returns holds at least two
\* distinct element-like tokens.
C10_TwoDistinctElements ==
  pc = "extracted" =>
    \A i \in 1..Len(result) :
      Cardinality(Range(ElementTokens(result[i]))) >= 2

\* C10 as amended: every candidate the extractor returns holds at least two
\* element-like tokens, which need not be distinct.
C10_TwoElementTokens ==
  pc = "extracted" =>
    \A i \in 1..Len(result) :
      /\ Cardinality({ k \in 1..Len(result[i]) : result[i][k] \in Upper }) >= 2
      /\ Len(ElementTokens(result[i])) >= 2

\* the text proposed Li alone, which was not returned, and a formula of two
\* element-like tokens, which was
C10_Witness ==
  /\ pc = "extracted"
  /\ << "L", "i" >> \in Range(CandidateStream(ResponseLines))
  /\ << "L", "i" >> \notin Range(result)
  /\ \E i \in 1..Len(result) : Len(ElementTokens(result[i])) = 2

----------------------------------------------------------------------------
(* Claims about the normalization, checked under CleanSpec *)

\* C6: normalizing the result of the normalization of a text gives the
\* result of normalizing the text once.
C6_NormalizationIdempotent ==
  pc = "recleaned" => result[2] = result[1]

\* a text with a subscript and markup was normalized twice, and the first
\* normalization changed it
C6_Witness ==
  /\ pc = "recleaned"
  /\ "_" \in Range(text)
  /\ "$" \in Range(text)
  /\ result[1] # <<>>
  /\ result[1] # text

----------------------------------------------------------------------------
(* Claims about the decision engine, checked under DecideSpec *)

ValidTask == task_id \in { 101, 102 }

\* the task selector is valid and the oracle scores the baseline
ValidCall == ValidTask /\ capacity[input_formula] # OracleFault

\* the candidates of a list that the oracle scores
RECURSIVE Scored(_)
Scored(formulas) ==
  IF formulas = <<>> THEN <<>>
  ELSE IF capacity[Head(formulas)] = OracleFault THEN Scored(Tail(formulas))
  ELSE << Head(formulas) >> \o Scored(Tail(formulas))

\* the records of a list whose candidate the oracle scores
RECURSIVE ScoredRecords(_)
ScoredRecords(records) ==
  IF records = <<>> THEN <<>>
  ELSE IF capacity[Head(records)[1]] = OracleFault
    THEN ScoredRecords(Tail(records))
  ELSE << Head(records) >> \o ScoredRecords(Tail(records))

\* what decide_pairs returns for a list when no call of decide_one_pair
\* raises
RECURSIVE PairsOf(_)
PairsOf(formulas) ==
  IF formulas = <<>> THEN <<>>
  ELSE LET r == decide_one_pair(input_formula, Head(formulas), task_id)
       IN  << << Head(formulas), r.value[2], r.value[3] >> >>
             \o PairsOf(Tail(formulas))

\* C7: for a valid task selector and a baseline the oracle scores,
\* decide_pairs raises nothing and returns one record per candidate in the
\* order of the input; a candidate whose scoring faults gets capacity
\* not-a-number and verdict false, and the records of the other candidates
\* are those of the list without the faulting candidates.
C7_BatchRecordsPerCandidate ==
  ValidCall =>
    /\ pc \notin { "OracleFault", "NotImplementedError" }
    /\ \A k \in 1..Len(answer_list) :
         /\ answer_list[k][1] = output_formula_list[k]
         /\ capacity[output_formula_list[k]] = OracleFault
              => answer_list[k] = << output_formula_list[k], NaN, FALSE >>
    /\ pc = "pairs_returned" =>
         /\ Len(result) = Len(output_formula_list)
         /\ result = answer_list
         /\ ScoredRecords(result) = PairsOf(Scored(output_formula_list))

\* a batch returned whose first candidate faulted and whose second improved
C7_Witness ==
  /\ ValidCall
  /\ pc = "pairs_returned"
  /\ Len(result) = 2
  /\ result[1][2] = NaN
  /\ result[1][3] = FALSE
  /\ result[2][3] = TRUE

\* C8: for a task selector other than 101 and 102, decide_one_pair and
\* decide_pairs, for every sequence of candidates, report the configuration
\* error before any oracle call and never return a result.
C8_InvalidSelectorNeverReturns ==
  ~ValidTask =>
    /\ pc \in { "idle", "pairs", "NotImplementedError" }
    /\ oracle_calls = 0

\* C9: for a valid task selector, when the oracle scores the baseline as b
\* and the candidate as c, the verdict of decide_one_pair is true if and only
\* if c > b.
C9_VerdictIffGreater ==
  (pc = "one_returned" /\ capacity[result[1]] # OracleFault) =>
    /\ ValidCall
    /\ result[2] = capacity[input_formula]
    /\ result[3] = capacity[result[1]]
    /\ result[4] = (capacity[result[1]] > capacity[input_formula])

\* a pair of equal capacities was decided, and the verdict was false
C9_Witness ==
  /\ pc = "one_returned"
  /\ result[1] # input_formula
  /\ result[2] \in Capacities
  /\ result[3] = result[2]
  /\ result[4] = FALSE

====
